---- MODULE Spec2Model ----
(***************************************************************************)
(* A model of md_math_fixer.py: the protected-region partitioner, the      *)
(* token classifier, and the four text transforms (normalize, highlight,   *)
(* clean, undo).  A text is a sequence of characters, each a string of  *)
(* one character.  The file the tool rewrites in place is the state: each  *)
(* run reads the document, applies one transform and writes it back.       *)
(***************************************************************************)
EXTENDS Naturals, Sequences, FiniteSets

VARIABLES orig, prev, doc, ops

vars == <<orig, prev, doc, ops>>

----------------------------------------------------------------------------
(* Character classes used by the regular expressions of the source.        *)

Lower == {"a","b","c","d","e","f","g","h","i","j","k","l","m",
          "n","o","p","q","r","s","t","u","v","w","x","y","z"}

Upper == {"A","B","C","D","E","F","G","H","I","J","K","L","M",
          "N","O","P","Q","R","S","T","U","V","W","X","Y","Z"}

Digit == {"0","1","2","3","4","5","6","7","8","9"}

AlNum == Lower \cup Upper \cup Digit

\* \w of the re module (ASCII part): letters, digits, underscore
WordChars == AlNum \cup {"_"}

\* \s of the re module and the characters str.strip() removes (ASCII part)
Whitespace == {" ", "\t", "\n", "\r"}

\* the character class of token_pattern
TokenChars == AlNum \cup {"_", "\\", "^", "{", "}", "-", "+", "=", "<", ">"}

\* [a-zA-Z0-9\\]
ComplexHead == AlNum \cup {"\\"}

\* [_\^\{]
ComplexMid == {"_", "^", "{"}

\* [a-zA-Z0-9_\^\{\}\-\+\\]
ComplexTail == AlNum \cup {"_", "^", "{", "}", "-", "+", "\\"}

\* [\+\=\<\>]
RelOps == {"+", "=", "<", ">"}

\* [kxyzmn]
ArithHead == {"k", "x", "y", "z", "m", "n"}

\* [0-9a-z]
ArithTail == Digit \cup Lower

----------------------------------------------------------------------------
(* Configuration.                                                          *)

MATH_VARS ==
    { <<c>> : c \in {"x","y","z","u","v","w","k","i","j","t","n","m",
                     "A","B","D","F","H","P","Q","R","K","I","S","Z","X",
                     "Y","L","U","N","M","E","T","C","G"} }
    \cup { <<"t","h","e","t","a">>, <<"m","u">>, <<"s","i","g","m","a">>,
           <<"a","l","p","h","a">>, <<"b","e","t","a">>,
           <<"g","a","m","m","a">>, <<"l","a","m","b","d","a">>,
           <<"d","e","l","t","a">>, <<"p","h","i">>,
           <<"o","m","e","g","a">> }

ENGLISH_STOPWORDS ==
    { <<"I">>, <<"i","n">>, <<"i","s">>, <<"a","t">>, <<"t","o">>,
      <<"o","f">>, <<"o","n">>, <<"i","f">>, <<"o","r">>, <<"b","y">>,
      <<"w","e">>, <<"i","t">>, <<"s","o">>, <<"a","s">>, <<"b","e">>,
      <<"s","l","a","m">>, <<"m","a","t","r","i","x">>,
      <<"v","e","c","t","o","r">>, <<"f","i","l","t","e","r">>,
      <<"m","o","d","e","l">>, <<"u","p","d","a","t","e">>,
      <<"p","r","e","d","i","c","t">>,
      <<"e","s","t","i","m","a","t","e">>, <<"m","a","p">> }

\* the backtick character (an atom: a string of the module cannot hold it)
BT == "bt"

MARKER_START == <<"=", "=">>

MARKER_END == <<"=", "=">>

----------------------------------------------------------------------------
(* String helpers.                                                         *)

\* s[i..j] as Python's slice would give it (empty when out of order)
Slice(s, i, j) == IF i > j THEN <<>> ELSE SubSeq(s, i, j)

\* s.startswith(p, i-1): p occurs in s at (1-based) position i
HasAt(s, i, p) ==
    /\ i >= 1
    /\ i + Len(p) - 1 <= Len(s)
    /\ \A k \in 1..Len(p) : s[i + k - 1] = p[k]

\* p in s
Contains(s, p) == \E i \in 1..(Len(s) + 1) : HasAt(s, i, p)

\* "".join(parts)
RECURSIVE Join(_)
Join(parts) ==
    IF parts = <<>> THEN <<>> ELSE Head(parts) \o Join(Tail(parts))

\* the least position j >= from where p occurs in s, 0 when there is none
RECURSIVE FindFrom(_, _, _)
FindFrom(s, from, p) ==
    IF from + Len(p) - 1 > Len(s) THEN 0
    ELSE IF HasAt(s, from, p) THEN from
    ELSE FindFrom(s, from + 1, p)

\* the last position of the maximal run of characters outside stop
\* that starts at i (i - 1 when the run is empty)
RECURSIVE RunEnd(_, _, _)
RunEnd(s, i, stop) ==
    IF i > Len(s) \/ s[i] \in stop THEN i - 1
    ELSE RunEnd(s, i + 1, stop)

\* str.strip()
RECURSIVE LStrip(_)
LStrip(s) ==
    IF s # <<>> /\ Head(s) \in Whitespace THEN LStrip(Tail(s)) ELSE s

RECURSIVE RStrip(_)
RStrip(s) ==
    IF s # <<>> /\ s[Len(s)] \in Whitespace
    THEN RStrip(SubSeq(s, 1, Len(s) - 1)) ELSE s

\* Strip with lstrip() in place of strip(): trailing whitespace stays
Strip_leftOnly(s) == LStrip(s)

Strip(s) == RStrip(LStrip(s))

----------------------------------------------------------------------------
(* PROTECT_PATTERN: the four alternatives, tried in order at a position.   *)
(* Each operator gives the last position of the match that starts at i,    *)
(* or 0 when the alternative does not match there.                         *)

\* the last position of the maximal run of characters of class that
\* starts at i (i - 1 when the run is empty)
RECURSIVE RunEndIn(_, _, _)
RunEndIn(s, i, class) ==
    IF i > Len(s) \/ s[i] \notin class THEN i - 1
    ELSE RunEndIn(s, i + 1, class)

\* open, then the shortest run of any characters, then close
LazyDelimited(s, i, open, close) ==
    IF ~HasAt(s, i, open) THEN 0
    ELSE LET j == FindFrom(s, i + Len(open), close)
         IN  IF j = 0 THEN 0 ELSE j + Len(close) - 1

\* d, then one or more characters other than d and newline, then d
SingleDelimited(s, i, d) ==
    IF ~HasAt(s, i, <<d>>) THEN 0
    ELSE LET e == RunEnd(s, i + 1, {d, "\n"})
         IN  IF e >= i + 1 /\ HasAt(s, e + 1, <<d>>) THEN e + 1 ELSE 0

\* alternative 1, a fenced code block: three backticks, [\s\S]*?, three backticks
FencedCode(s, i) == LazyDelimited(s, i, <<BT, BT, BT>>, <<BT, BT, BT>>)

\* alternative 2, inline code: a backtick, one or more of [^backtick \n], a backtick
InlineCode(s, i) == SingleDelimited(s, i, BT)

\* alternative 3, display math: \$\$[\s\S]*?\$\$
DisplayMath(s, i) == LazyDelimited(s, i, <<"$","$">>, <<"$","$">>)

\* alternative 4, inline math: \$[^\$\n]+\$
InlineMath(s, i) == SingleDelimited(s, i, "$")

PROTECT_PATTERN(s, i) ==
    IF FencedCode(s, i) # 0 THEN FencedCode(s, i)
    ELSE IF InlineCode(s, i) # 0 THEN InlineCode(s, i)
    ELSE IF DisplayMath(s, i) # 0 THEN DisplayMath(s, i)
    ELSE InlineMath(s, i)

\* PROTECT_PATTERN.split(text): plain, protected, plain, ..., plain.
\* The even indices of the source are the odd positions of this sequence.
RECURSIVE SplitFrom(_, _, _)
SplitFrom(s, i, from) ==
    IF i > Len(s) THEN << Slice(s, from, Len(s)) >>
    ELSE LET e == PROTECT_PATTERN(s, i)
         IN  IF e # 0
             THEN << Slice(s, from, i - 1), Slice(s, i, e) >>
                  \o SplitFrom(s, e + 1, e + 1)
             ELSE SplitFrom(s, i + 1, from)

PROTECT_split(text) == SplitFrom(text, 1, 1)

\* i % 2 == 1 in the source's 0-based numbering
IsProtectedIndex(i) == i % 2 = 0

----------------------------------------------------------------------------
(* normalize_inline_math                                                   *)

\* part.startswith('$') and not part.startswith('$$')
IsInlineMathPart(part) == HasAt(part, 1, <<"$">>) /\ ~HasAt(part, 1, <<"$","$">>)

\* f"${content}$" with content = part[1:-1].strip()
CompactInline(part) ==
    <<"$">> \o Strip(Slice(part, 2, Len(part) - 1)) \o <<"$">>

\* NormalizePart without the startswith test: every protected part is
\* re-wrapped in dollar signs, code and display math included
NormalizePart_all(parts, i) ==
    IF IsProtectedIndex(i) THEN CompactInline(parts[i]) ELSE parts[i]

NormalizePart(parts, i) ==
    IF IsProtectedIndex(i) /\ IsInlineMathPart(parts[i])
    THEN CompactInline(parts[i])
    ELSE parts[i]

normalize_inline_math(text) ==
    LET parts == PROTECT_split(text)
    IN  Join([i \in 1..Len(parts) |-> NormalizePart(parts, i)])

----------------------------------------------------------------------------
(* The classifier and apply_highlight                                      *)

\* \b at the gap before position i (i in 1..Len(s)+1)
IsWordAt(s, i) == i >= 1 /\ i <= Len(s) /\ s[i] \in WordChars

WordBoundary(s, i) == IsWordAt(s, i - 1) # IsWordAt(s, i)

AllIn(s, i, j, class) == \A k \in i..j : s[k] \in class

\* COMPLEX_MATH_PATTERN.search(word)
COMPLEX_MATH_PATTERN(word) ==
    \E k \in 2..(Len(word) - 1) :
        /\ word[k] \in ComplexMid
        /\ word[k - 1] \in ComplexHead
        /\ word[k + 1] \in ComplexTail

\* \b[a-zA-Z0-9]+\s*[\+\=\<\>]\s*[a-zA-Z0-9]+\b
RelationShape(word) ==
    \E p \in 2..(Len(word) - 1) :
        /\ word[p] \in RelOps
        /\ \E j \in 1..(p - 1) :
              /\ AllIn(word, j + 1, p - 1, Whitespace)
              /\ word[j] \in AlNum
              /\ \E i \in 1..j :
                    AllIn(word, i, j, AlNum) /\ WordBoundary(word, i)
        /\ \E q \in (p + 1)..Len(word) :
              /\ AllIn(word, p + 1, q - 1, Whitespace)
              /\ word[q] \in AlNum
              /\ \E e \in q..Len(word) :
                    AllIn(word, q, e, AlNum) /\ WordBoundary(word, e + 1)

\* ArithmeticShape with [0-9] in place of [0-9a-z]
ArithmeticShape_digitsOnly(word) ==
    \E i \in 1..Len(word) :
        /\ word[i] \in ArithHead
        /\ WordBoundary(word, i)
        /\ \E p \in (i + 1)..Len(word) :
              /\ AllIn(word, i + 1, p - 1, Whitespace)
              /\ word[p] = "-"
              /\ \E e \in (p + 1)..Len(word) :
                    /\ AllIn(word, p + 1, e - 1, Whitespace)
                    /\ word[e] \in Digit
                    /\ WordBoundary(word, e + 1)

\* \b[kxyzmn]\s*-\s*[0-9a-z]\b
ArithmeticShape(word) ==
    \E i \in 1..Len(word) :
        /\ word[i] \in ArithHead
        /\ WordBoundary(word, i)
        /\ \E p \in (i + 1)..Len(word) :
              /\ AllIn(word, i + 1, p - 1, Whitespace)
              /\ word[p] = "-"
              /\ \E e \in (p + 1)..Len(word) :
                    /\ AllIn(word, p + 1, e - 1, Whitespace)
                    /\ word[e] \in ArithTail
                    /\ WordBoundary(word, e + 1)

\* OPERATION_PATTERN.search(word)
OPERATION_PATTERN(word) == RelationShape(word) \/ ArithmeticShape(word)

\* BareSymbol without the deny-list test
BareSymbol_noDenyList(word) == word \in MATH_VARS

\* word in MATH_VARS and word not in ENGLISH_STOPWORDS
BareSymbol(word) == word \in MATH_VARS /\ word \notin ENGLISH_STOPWORDS

\* the is_math flag of replace_func
is_math(word) ==
    \/ COMPLEX_MATH_PATTERN(word)
    \/ OPERATION_PATTERN(word)
    \/ BareSymbol(word)

\* the guard of replace_func
AlreadyProcessed(word) == Contains(word, MARKER_START) \/ Contains(word, <<"$">>)

Wrapped(word) == MARKER_START \o <<"$">> \o Strip(word) \o <<"$">> \o MARKER_END

replace_func(word) ==
    IF AlreadyProcessed(word) THEN word
    ELSE IF is_math(word) THEN Wrapped(word)
    ELSE word

\* token_pattern.sub(replace_func, part)
RECURSIVE TokenSubFrom(_, _)
TokenSubFrom(s, i) ==
    IF i > Len(s) THEN <<>>
    ELSE IF s[i] \in TokenChars
         THEN LET e == RunEndIn(s, i, TokenChars)
              IN  replace_func(Slice(s, i, e)) \o TokenSubFrom(s, e + 1)
         ELSE <<s[i]>> \o TokenSubFrom(s, i + 1)

token_sub(part) == TokenSubFrom(part, 1)

HighlightPart(parts, i) ==
    IF IsProtectedIndex(i) THEN parts[i] ELSE token_sub(parts[i])

apply_highlight(text) ==
    LET parts == PROTECT_split(text)
    IN  normalize_inline_math(
            Join([i \in 1..Len(parts) |-> HighlightPart(parts, i)]))

----------------------------------------------------------------------------
(* remove_highlight and undo_changes                                       *)

\* MARKER_START (\$[^\$]+\$) MARKER_END at i: the position of the closing
\* dollar sign, or 0
CleanMatch(s, i) ==
    IF ~HasAt(s, i, MARKER_START \o <<"$">>) THEN 0
    ELSE LET first == i + Len(MARKER_START) + 1
             e     == RunEnd(s, first, {"$"})
         IN  IF e >= first /\ HasAt(s, e + 1, <<"$">> \o MARKER_END)
             THEN e + 1 ELSE 0

\* CleanFrom with a pattern that lacks the end marker: the start marker is
\* dropped and the end marker stays in the text
RECURSIVE CleanFrom_keepEnd(_, _)
CleanFrom_keepEnd(s, i) ==
    IF i > Len(s) THEN <<>>
    ELSE LET c == CleanMatch(s, i)
         IN  IF c # 0
             THEN Slice(s, i + Len(MARKER_START), c)
                  \o CleanFrom_keepEnd(s, c + 1)
             ELSE <<s[i]>> \o CleanFrom_keepEnd(s, i + 1)

\* pattern.sub(r'\1', text) of remove_highlight
RECURSIVE CleanFrom(_, _)
CleanFrom(s, i) ==
    IF i > Len(s) THEN <<>>
    ELSE LET c == CleanMatch(s, i)
         IN  IF c # 0
             THEN Slice(s, i + Len(MARKER_START), c)
                  \o CleanFrom(s, c + 1 + Len(MARKER_END))
             ELSE <<s[i]>> \o CleanFrom(s, i + 1)

remove_highlight(text) == normalize_inline_math(CleanFrom(text, 1))

\* MARKER_START \$(.*?)\$ MARKER_END at i: the position of the closing
\* dollar sign, or 0
UndoMatch(s, i) ==
    IF ~HasAt(s, i, MARKER_START \o <<"$">>) THEN 0
    ELSE LET first == i + Len(MARKER_START) + 1
             j     == FindFrom(s, first, <<"$">> \o MARKER_END)
         IN  IF j # 0 /\ \A k \in first..(j - 1) : s[k] # "\n"
             THEN j ELSE 0

\* pattern.sub(r'\1', text) of undo_changes
RECURSIVE UndoFrom(_, _)
UndoFrom(s, i) ==
    IF i > Len(s) THEN <<>>
    ELSE LET c == UndoMatch(s, i)
         IN  IF c # 0
             THEN Slice(s, i + Len(MARKER_START) + 1, c - 1)
                  \o UndoFrom(s, c + 1 + Len(MARKER_END))
             ELSE <<s[i]>> \o UndoFrom(s, i + 1)

undo_changes(text) == UndoFrom(text, 1)

----------------------------------------------------------------------------
(* The documents the tool is run on.                                       *)

MaxPieces == 4

MaxOps == 2

\* short pieces a document is typed from
Pieces == { <<"$">>, <<" ">>, <<"x">>, <<"=">>, <<BT>>, <<"\n">> }

\* every concatenation of at most n pieces
RECURSIVE Docs(_)
Docs(n) ==
    IF n = 0 THEN { <<>> }
    ELSE Docs(n - 1) \cup { d \o p : d \in Docs(n - 1), p \in Pieces }

\* the end-to-end scenario of the specification
ScenarioText ==
    <<"L","e","t"," ","$"," ","x"," ","$"," ","b","e"," ","g","i","v","e",
      "n","."," ","T","h","e","n"," ","k","-","1"," ","t","e","r","m","s",
      " ","r","e","m","a","i","n","."," ","W","e"," ","u","s","e"," ","s",
      "l","a","m"," ","f","i","l","t","e","r","i","n","g",".">>

\* its expected result under highlight
ScenarioHighlighted ==
    <<"L","e","t"," ","$","x","$"," ","b","e"," ","g","i","v","e","n",".",
      " ","T","h","e","n"," ","=","=","$","k","-","1","$","=","="," ","t",
      "e","r","m","s"," ","r","e","m","a","i","n","."," ","W","e"," ","u",
      "s","e"," ","s","l","a","m"," ","f","i","l","t","e","r","i","n","g",
      ".">>

\* the input of the clean and undo scenarios
HighlightedText ==
    <<"T","h","e","n"," ","=","=","$","k","-","1","$","=","="," ","t","e",
      "r","m","s"," ","r","e","m","a","i","n",".">>

\* inline code whose content is highlight scaffolding
CodeWithScaffold ==
    <<BT,"=","=","$","x","$","=","=",BT>>

\* a fenced code block whose content is highlight scaffolding
FenceWithScaffold ==
    <<BT,BT,BT,"\n","=","=","$","x","$","=","=","\n",BT,BT,BT>>

\* markers around a dollar-delimited span that crosses a line break
MultiLineHighlight ==
    <<"=","=","$","a","\n","b","$","=","=">>

\* three unpaired dollar signs separated by blanks
StrayDollars ==
    <<"$"," ","$"," ","$">>

\* inline code, display math and inline math, each padded with blanks
MixedSpans ==
    <<BT," ","x"," ",BT," ","$","$"," ","x"," ","$","$"," ","$"," ","x"," ",
      "$">>

Seeds ==
    { ScenarioText, HighlightedText, CodeWithScaffold, FenceWithScaffold,
      MultiLineHighlight, StrayDollars, MixedSpans }

\* one letter of k,x,y,z,m,n, a minus sign, one character of class
ArithTokens(class) == { <<h, "-", c>> : h \in ArithHead, c \in class }

\* documents that are a single token
TokenDocs ==
    ArithTokens(AlNum) \cup MATH_VARS \cup ENGLISH_STOPWORDS
    \cup { <<"x","_","1">>, <<"x","^","2">>, <<"a","=","b">>,
           <<"k","+","1">>, <<"L","e","t">>, <<"x","-","r","a","y">>,
           <<"T","h","e","t","a">>, <<"X","x">>, <<"i","n","_","x">>,
           <<"i","s","=","1">>, <<"x","=">>, <<"\\","m","u">> }

Inputs == Docs(MaxPieces) \cup Seeds \cup TokenDocs

----------------------------------------------------------------------------
(* The state machine: main() reads the file, applies the transform of the  *)
(* chosen mode and writes the result back; normalize_inline_math is the    *)
(* fourth function of the interface.  orig is the document before the      *)
(* first run, prev the document before the last run, ops the runs so far.  *)

Init ==
    /\ orig \in Inputs
    /\ prev = orig
    /\ doc = orig
    /\ ops = <<>>

\* a call of normalize_inline_math on the document
Normalize ==
    /\ Len(ops) < MaxOps
    /\ prev' = doc
    /\ doc' = normalize_inline_math(doc)
    /\ ops' = Append(ops, "normalize")
    /\ UNCHANGED orig

\* main with --mode highlight
Highlight ==
    /\ Len(ops) < MaxOps
    /\ prev' = doc
    /\ doc' = apply_highlight(doc)
    /\ ops' = Append(ops, "highlight")
    /\ UNCHANGED orig

\* main with --mode clean
Clean ==
    /\ Len(ops) < MaxOps
    /\ prev' = doc
    /\ doc' = remove_highlight(doc)
    /\ ops' = Append(ops, "clean")
    /\ UNCHANGED orig

\* main with --mode undo
Undo ==
    /\ Len(ops) < MaxOps
    /\ prev' = doc
    /\ doc' = undo_changes(doc)
    /\ ops' = Append(ops, "undo")
    /\ UNCHANGED orig

Next == Normalize \/ Highlight \/ Clean \/ Undo

Spec == Init /\ [][Next]_vars

----------------------------------------------------------------------------
(* Vocabulary of the properties.                                           *)

\* a highlighted token: start marker, dollar, token, dollar, end marker
Scaffold(token) == <<"=", "=", "$">> \o token \o <<"$", "=", "=">>

HasMarker(s) == \E i \in 1..Len(s) : HasAt(s, i, <<"=", "=">>)

MarkerCount(s) == Cardinality({ i \in 1..Len(s) : HasAt(s, i, <<"=", "=">>) })

\* the protected-region pattern matches nowhere in s
NoProtectedSpan(s) == \A i \in 1..Len(s) : PROTECT_PATTERN(s, i) = 0

\* the fenced code blocks and inline code spans the partitioner finds in s
CodeSpans(s) ==
    LET parts == PROTECT_split(s)
    IN  { parts[i] : i \in { k \in 1..Len(parts) : k % 2 = 0 /\ parts[k][1] = BT } }

\* s is one token: a non-empty run of token characters
IsSingleToken(s) == s # <<>> /\ \A k \in 1..Len(s) : s[k] \in TokenChars

\* a start marker at i, then a well-formed inline-math span (single dollar
\* delimiters around a non-empty interior without dollar sign or newline),
\* then an end marker
WellFormedHighlightAt(s, i) ==
    \E e \in (i + 3)..Len(s) :
        /\ HasAt(s, i, <<"=", "=", "$">>)
        /\ \A k \in (i + 3)..e : s[k] \notin {"$", "\n"}
        /\ HasAt(s, e + 1, <<"$", "=", "=">>)

\* s without its leading and trailing whitespace
Trimmed(s) ==
    LET keep == { k \in 1..Len(s) : s[k] \notin Whitespace }
    IN  IF keep = {} THEN <<>>
        ELSE SubSeq(s, CHOOSE a \in keep : \A k \in keep : a <= k,
                       CHOOSE b \in keep : \A k \in keep : k <= b)

\* a protected span tagged inline math: it starts with one dollar sign, not two
TaggedInlineMath(span) ==
    Len(span) >= 2 /\ span[1] = "$" /\ span[2] # "$"

----------------------------------------------------------------------------
(* C1: normalize_inline_math is idempotent: normalizing a normalized text  *)
(* changes nothing, for every text.                                        *)
C1_NormalizeIdempotent ==
    ops = <<"normalize", "normalize">> => doc = prev

(* C2: after one run of highlight, clean or undo, every fenced code block  *)
(* and inline code span of the input still occurs unchanged in the output. *)
C2_CodeIsProtected ==
    (Len(ops) = 1 /\ ops[1] \in {"highlight", "clean", "undo"})
        => \A c \in CodeSpans(orig) : Contains(doc, c)

(* C3: highlight followed by undo gives back the input, for every input in *)
(* which the protected-region pattern has no match.                        *)
C3_UndoInvertsHighlight ==
    (ops = <<"highlight", "undo">> /\ NoProtectedSpan(orig)) => doc = orig

(* C4: highlight followed by clean leaves no occurrence of the marker, for *)
(* every input.                                                            *)
C4_CleanLeavesNoMarker ==
    ops = <<"highlight", "clean">> => ~HasMarker(doc)

(* C4, amended: highlight followed by clean leaves no occurrence of the    *)
(* marker, for every input that itself holds no occurrence of the marker.  *)
C4_CleanLeavesNoNewMarker ==
    (ops = <<"highlight", "clean">> /\ ~HasMarker(orig)) => ~HasMarker(doc)

C4_MarkersAddedThenRemoved ==
    /\ ops = <<"highlight", "clean">>
    /\ ~HasMarker(orig)
    /\ HasMarker(prev)
    /\ ~HasMarker(doc)

(* C5: a token made of one letter of k,x,y,z,m,n, a minus sign and one     *)
(* alphanumeric character (digit, lowercase or uppercase letter) is        *)
(* highlighted.                                                            *)
C5_ArithmeticTokenIsMath ==
    (ops = <<"highlight">> /\ orig \in ArithTokens(Digit \cup Lower \cup Upper))
        => doc = Scaffold(orig)

(* C5, amended: a token made of one letter of k,x,y,z,m,n, a minus sign    *)
(* and one digit or lowercase letter is highlighted; with an uppercase     *)
(* letter after the minus sign it is left as it is.                        *)
C5_ArithmeticLowerTokenIsMath ==
    ops = <<"highlight">> =>
        /\ orig \in ArithTokens(Digit \cup Lower) => doc = Scaffold(orig)
        /\ orig \in ArithTokens(Upper) => doc = orig

C5_LetterMinusLetterHighlighted ==
    /\ ops = <<"highlight">>
    /\ orig = <<"k", "-", "a">>
    /\ doc = Scaffold(orig)

(* C6: a token matching neither the structural nor the operator shape is   *)
(* highlighted exactly when it is in the allow-list and not in the         *)
(* deny-list; x is highlighted; in, matrix, slam and I are not; k-1 and    *)
(* x_1 are.                                                                *)
C6_BareSymbolRule ==
    (ops = <<"highlight">> /\ IsSingleToken(orig)) =>
        /\ (~COMPLEX_MATH_PATTERN(orig) /\ ~OPERATION_PATTERN(orig)) =>
              IF orig \in MATH_VARS /\ orig \notin ENGLISH_STOPWORDS
              THEN doc = Scaffold(orig)
              ELSE doc = orig
        /\ orig = <<"x">> => doc = Scaffold(orig)
        /\ orig \in { <<"i","n">>, <<"m","a","t","r","i","x">>,
                      <<"s","l","a","m">>, <<"I">> } => doc = orig
        /\ orig \in { <<"k","-","1">>, <<"x","_","1">> } => doc = Scaffold(orig)

C6_DeniedSymbolLeftAlone ==
    /\ ops = <<"highlight">>
    /\ orig = <<"I">>
    /\ orig \in MATH_VARS
    /\ doc = orig

(* C7: clean removes a marker pair only around a well-formed inline-math   *)
(* span: when the input has no such highlighted span, every occurrence of  *)
(* the marker is still there in the output.                                *)
C7_CleanIsConservative ==
    (ops = <<"clean">> /\ \A i \in 1..Len(orig) : ~WellFormedHighlightAt(orig, i))
        => MarkerCount(doc) = MarkerCount(orig)

(* C8: highlight turns the scenario text into the expected text: the       *)
(* existing inline span is compacted, k-1 is the only token wrapped.       *)
C8_EndToEndScenario ==
    (ops = <<"highlight">> /\ orig = ScenarioText) => doc = ScenarioHighlighted

C8_ScenarioHighlightedReached ==
    /\ ops = <<"highlight">>
    /\ orig = ScenarioText
    /\ doc # orig

(* C9: the spans of the partitioner, concatenated in order, are the input; *)
(* the normalizer's output is that concatenation with every span tagged    *)
(* inline math replaced by a dollar sign, its interior without leading and *)
(* trailing whitespace, and a dollar sign, and every other span unchanged. *)
C9_NormalizerFrame ==
    ops = <<"normalize">> =>
        LET spans == PROTECT_split(orig)
            out(i) == IF i % 2 = 0 /\ TaggedInlineMath(spans[i])
                      THEN <<"$">>
                           \o Trimmed(SubSeq(spans[i], 2, Len(spans[i]) - 1))
                           \o <<"$">>
                      ELSE spans[i]
        IN  /\ Join(spans) = orig
            /\ doc = Join([i \in 1..Len(spans) |-> out(i)])

C9_InlineCompactedOthersKept ==
    /\ ops = <<"normalize">>
    /\ orig = MixedSpans
    /\ doc # orig
    /\ Len(doc) = Len(orig) - 2

(* C10: apply_highlight is idempotent: highlighting a highlighted text     *)
(* changes nothing, for every text.                                        *)
C10_HighlightIdempotent ==
    ops = <<"highlight", "highlight">> => doc = prev

====
